---- MODULE Spec2Model ----
(***************************************************************************)
(* A model of poutr's history core (src/src/history.ts): the Location      *)
(* normalisation of createLocation, the navigation surface (an ordered     *)
(* sequence of entries with a cursor), the three drivers (browser, hash,   *)
(* memory) and the history engine with its listener protocol.              *)
(*                                                                         *)
(* Strings are sequences of one-character strings.  Two multi-character    *)
(* tokens stand for text whose inner structure plays no part: ORIGIN for   *)
(* the scheme and host of the surface's document, and ENC_SUB for the      *)
(* percent-encoded form of the hash substitute.                            *)
(***************************************************************************)
EXTENDS Integers, Sequences, FiniteSets, TLC

\* ------------------------------------------------------------ bounds
\* longest href handed to createLocation in the specification SpecLocation
MaxHrefLen == 5
\* number of location changes (push, replace, pop) one behaviour of Spec makes
MaxChanges == 3
\* number of location changes one behaviour of SpecSubscriptions makes
MaxSubscriptionChanges == 2

\* the registrations of listeners one behaviour of SpecOrder makes in a row
MaxRegistrations == 4

\* the entries a surface is grown to where no other bound limits it
MaxEntries == 4

VARIABLES
    \* --- the navigation surface (createMockedWindow's closure)
    history,      \* sequence of entries [url, state]
    index,        \* cursor into history, 1-based here (0-based in the source)
    winListeners, \* popstate callbacks registered on the surface
    \* --- the history engine (createHistory's closure)
    mode,         \* which factory built the engine: "browser", "hash", "memory"
    location,     \* let location
    from,         \* let from
    listeners,    \* the Set of listeners, in insertion order
    \* --- bookkeeping of what the callers hold and of the last call
    status,       \* per listener: how its last registration began or ended
    nextId,       \* identity of the next Location object createLocation makes
    budget,       \* number of location changes the behaviour may still make
    last,         \* the last call made, with the state it started from
    notified,     \* the listener calls the last call made, in order
    written,      \* per entry: what push/replace last meant to write, or NoLocation
    destroyed,    \* destroy has been called
    spent,        \* the listeners of which a disposer has been called (Unfollowed
                  \* in the specifications that do not tell disposers apart)
    since,        \* per listener: when its active registration began, 0 for none
                  \* (Untimed in the specifications that do not follow it)
    pushed,       \* on a fresh surface, while only push navigated: the pushes made; else -1
    \* --- the pure-function harness of SpecLocation
    href,         \* the input string
    parsed,       \* createLocation(href), or NoLocation before the call
    slashed,      \* createLocation(href + '/'), or NoLocation before the call
    reparsed,     \* createLocation(createLocation(href).path), or NoLocation before the call
    \* --- a mounted <Switch> (SpecSwitch)
    children,     \* the children the Switch was given
    rendered,     \* what its last render returned, or NotMounted
    scheduled,    \* its state was set since: a re-render is due
    \* --- a second engine on the same surface (SpecShared)
    other         \* its closure: location, from, listeners; the calls its last
                  \* change made; destroy was called on it; NoOther where there is none

harnessVars == <<href, parsed, slashed, reparsed>>

switchVars == <<children, rendered, scheduled>>

vars == <<history, index, winListeners, mode, location, from, listeners, status,
          nextId, budget, last, notified, written, destroyed, pushed, spent, since, other,
          harnessVars,
          switchVars>>

engineVars == <<history, index, winListeners, mode, location, from, listeners,
                status, nextId, budget, last, notified, written, destroyed, pushed,
                spent, since>>

\* ------------------------------------------------------------ strings
SLASH == "/"
QMARK == "?"
HASH == "#"
COLON == ":"
\* the scheme and host of the surface's document, one token
ORIGIN == "https://example.com"
\* hashSubstitute (default U+FF03) and its percent-encoded form in a fragment
SUB == "S"
ENC_SUB == "%S"

\* the characters hrefs are built from in SpecLocation
HrefChars == {SLASH, "a", "b", QMARK, HASH}

RECURSIVE StringsUpTo(_, _)
StringsUpTo(chars, n) ==
    IF n = 0 THEN {<<>>}
    ELSE LET shorter == StringsUpTo(chars, n - 1)
         IN  shorter \cup {Append(s, c) : s \in {t \in shorter : Len(t) = n - 1}, c \in chars}

\* String.prototype.indexOf: the first position of c in s, 0 when absent
IndexOf(s, c) ==
    IF \E i \in 1..Len(s) : s[i] = c
    THEN CHOOSE i \in 1..Len(s) : s[i] = c /\ \A j \in 1..(i - 1) : s[j] # c
    ELSE 0

\* the first position of a character of cs in s, Len(s) + 1 when absent
FirstOf(s, cs) ==
    IF \E i \in 1..Len(s) : s[i] \in cs
    THEN CHOOSE i \in 1..Len(s) : s[i] \in cs /\ \A j \in 1..(i - 1) : s[j] \notin cs
    ELSE Len(s) + 1

Drop(s, n) == SubSeq(s, n + 1, Len(s))
Take(s, n) == SubSeq(s, 1, n)

\* href.includes(':'): ORIGIN holds a colon
Includes(s, c) ==
    \E i \in 1..Len(s) : s[i] = c \/ (c = COLON /\ s[i] = ORIGIN)

\* ------------------------------------------------------------ URL parsing
\* The part of a URL string before its query and fragment, its `search` and its
\* `hash` as the URL getters give them: a lone "?" or "#" reads as "".
RawPath(s) == Take(s, FirstOf(s, {QMARK, HASH}) - 1)

RawSearch(s) ==
    LET rest == Drop(s, FirstOf(s, {QMARK, HASH}) - 1)
        q == IF rest # <<>> /\ rest[1] = QMARK THEN Take(rest, FirstOf(rest, {HASH}) - 1) ELSE <<>>
    IN  IF Len(q) > 1 THEN q ELSE <<>>

RawHash(s) ==
    LET h == Drop(s, FirstOf(s, {HASH}) - 1)
    IN  IF Len(h) > 1 THEN h ELSE <<>>

\* pathname of a URL with a non-special scheme whose text after "scheme:" is p:
\* "//host/rest" has an authority and the path "/rest", "/x" is a path, and
\* anything else is an opaque path kept as written.
OpaquePathname(p) ==
    IF Len(p) >= 2 /\ p[1] = SLASH /\ p[2] = SLASH
    THEN LET afterAuthority == Drop(p, 2)
         IN  Drop(afterAuthority, FirstOf(afterAuthority, {SLASH}) - 1)
    ELSE p

\* pathname of a URL with a special scheme and a host (ORIGIN): never empty
SpecialPathname(p) == IF p = <<>> THEN <<SLASH>> ELSE p

\* The URL parser percent-encodes the characters outside ASCII, the hash
\* substitute among them; decodeURIComponent undoes it.
PercentEncode(s) == [i \in DOMAIN s |-> IF s[i] = SUB THEN ENC_SUB ELSE s[i]]

decodeURIComponent(s) == [i \in DOMAIN s |-> IF s[i] = ENC_SUB THEN SUB ELSE s[i]]

Url(pathname, search, hash) ==
    [pathname |-> PercentEncode(pathname), search |-> PercentEncode(search),
     hash |-> PercentEncode(hash)]

\* new URL(s) for the strings createLocation hands it: "pr:" \o text, or a
\* string starting with ORIGIN.  [pathname, search, hash]
ParseUrl(s) ==
    IF s # <<>> /\ s[1] = ORIGIN
    THEN Url(SpecialPathname(RawPath(Drop(s, 1))), RawSearch(Drop(s, 1)), RawHash(Drop(s, 1)))
    ELSE Url(OpaquePathname(RawPath(Drop(s, 3))), RawSearch(Drop(s, 3)), RawHash(Drop(s, 3)))

\* the directory of a pathname: up to and including its last slash
RECURSIVE Directory(_)
Directory(p) ==
    IF p = <<>> \/ p[Len(p)] = SLASH THEN p ELSE Directory(Take(p, Len(p) - 1))

\* new URL(to, base) for a scheme-less `to` and a base with a special scheme and
\* a host, given as its [pathname, search, hash]
Resolve(to, base) ==
    IF to = <<>> THEN Url(base.pathname, base.search, <<>>)
    ELSE IF to[1] = HASH THEN Url(base.pathname, base.search, RawHash(to))
    ELSE IF to[1] = QMARK THEN Url(base.pathname, RawSearch(to), RawHash(to))
    ELSE IF to[1] = SLASH
         THEN Url(SpecialPathname(OpaquePathname(RawPath(to))), RawSearch(to), RawHash(to))
    ELSE Url(Directory(base.pathname) \o RawPath(to), RawSearch(to), RawHash(to))

\* ------------------------------------------------------------ createLocation
\* .replace(/\/+/g, '/'): every run of slashes becomes one slash
RECURSIVE CollapseSlashes(_)
CollapseSlashes(s) ==
    IF Len(s) <= 1 THEN s
    ELSE IF s[1] = SLASH /\ s[2] = SLASH THEN CollapseSlashes(Tail(s))
    ELSE <<s[1]>> \o CollapseSlashes(Tail(s))

\* length of the run of slashes s ends with
RECURSIVE TrailingSlashes(_)
TrailingSlashes(s) ==
    IF s = <<>> \/ s[Len(s)] # SLASH THEN 0
    ELSE 1 + TrailingSlashes(Take(s, Len(s) - 1))

\* .replace(/.\/+$/, ''): the leftmost match is one character (any but a line
\* terminator, which no URL holds) followed by slashes up to the end; the whole
\* match is removed, the character before the slashes included.
StripTrailing(s) ==
    LET k == TrailingSlashes(s)
        start == IF Len(s) - k >= 1 THEN Len(s) - k ELSE 1
    IN  IF k >= 1 /\ Len(s) - start >= 1 THEN Take(s, start - 1) ELSE s

\* a Location: {href: path + search + hash, path, search, searchParams, hash,
\* state}; searchParams is a view of search and is left out
Location(id, path, search, hash, state) ==
    [id |-> id, href |-> path \o search \o hash, path |-> path, search |-> search,
     hash |-> hash, state |-> state]

Href(loc) == loc.href

UNDEFINED == "undefined"
NULL == "null"

\* `undefined` where a Location is expected
NoLocation == Location(0, <<>>, <<>>, <<>>, UNDEFINED)

\* the characters a scheme is made of, among those the targets use
SchemeChars == {"a", "b", "p", "r", "x", "y"}

\* the string starts with a scheme: ORIGIN, or letters up to its first colon
HasScheme(h) ==
    /\ h # <<>>
    /\ \/ h[1] = ORIGIN
       \/ /\ IndexOf(h, COLON) > 1
          /\ \A k \in 1..(IndexOf(h, COLON) - 1) : h[k] \in SchemeChars

\* createLocation throws: the href holds a colon, so it is handed to new URL as
\* it is, and it has no scheme, so new URL raises a TypeError
createLocationThrows(h) == Includes(h, COLON) /\ ~HasScheme(h)

\* the Location of an href read as a path-relative reference
PathRelative(h, state, id) ==
    LET url == ParseUrl(<<"p", "r", COLON>> \o h)
        path == StripTrailing(CollapseSlashes(<<SLASH>> \o url.pathname))
    IN  Location(id, path, url.search, url.hash, state)

\* a createLocation that hands the href it was given through
createLocationKeepsHref(h, state, id) ==
    LET url == ParseUrl(IF Includes(h, COLON) THEN h ELSE <<"p", "r", COLON>> \o h)
        path == StripTrailing(CollapseSlashes(<<SLASH>> \o url.pathname))
    IN  [id |-> id, href |-> h, path |-> path, search |-> url.search,
         hash |-> url.hash, state |-> state]

createLocation(h, state, id) ==
    LET url == ParseUrl(IF Includes(h, COLON) THEN h ELSE <<"p", "r", COLON>> \o h)
        path == StripTrailing(CollapseSlashes(<<SLASH>> \o url.pathname))
    IN  Location(id, path, url.search, url.hash, state)


\* ------------------------------------------------------------ the surface
\* history.state of an entry: what a caller passed, or the memory driver's
\* envelope.  Both are records here so that any two can be compared; a state
\* that is no envelope has IS_MEMORY_HISTORY_STATE = FALSE and an empty href.
PlainState(state) == [IS_MEMORY_HISTORY_STATE |-> FALSE, state |-> state, href |-> <<>>]

\* an optional string argument (location?: string)
NoUrl == [defined |-> FALSE, value |-> <<>>]
SomeUrl(s) == [defined |-> TRUE, value |-> s]

RootUrl == Url(<<SLASH>>, <<>>, <<>>)

\* window.location.href and window.location.hash of an entry
LocationHref(entry) == <<ORIGIN>> \o entry.url.pathname \o entry.url.search \o entry.url.hash
LocationHash(entry) == entry.url.hash

\* The entry pushState and replaceState store.  A location is resolved against
\* the url of the current entry; without one the entry keeps the url of the
\* document, the current entry's.  (createMockedWindow takes the url of its last
\* entry, history[history.length - 1]![0]: all its entries carry `initial`, the
\* memory driver never passing a location, so that is the same url.)
NewEntry(h, i, state, url) ==
    [url |-> IF url.defined /\ url.value # <<>> THEN Resolve(url.value, h[i].url)
             ELSE h[i].url,
     state |-> state]

\* pushState that appends without dropping the entries after the cursor
pushStateKeepsForward(h, i, state, url) == Append(h, NewEntry(h, i, state, url))

\* history.splice(++index, Infinity, entry): the sequence after pushState
pushState(h, i, state, url) == Append(Take(h, i), NewEntry(h, i, state, url))

\* replaceState that overwrites the last entry instead of the current one
replaceStateAtEnd(h, i, state, url) == [h EXCEPT ![Len(h)] = NewEntry(h, i, state, url)]

\* history[index] = entry: the sequence after replaceState
replaceState(h, i, state, url) == [h EXCEPT ![i] = NewEntry(h, i, state, url)]

Max(a, b) == IF a >= b THEN a ELSE b
Min(a, b) == IF a <= b THEN a ELSE b

\* a go that cannot reach the last entry
goIndexShortOfLast(h, i, delta) == Max(1, Min(Len(h) - 1, i + delta))

\* Math.max(0, Math.min(history.length - 1, index + delta)), 1-based
goIndex(h, i, delta) == Max(1, Min(Len(h), i + delta))

\* ------------------------------------------------------------ the drivers
Modes == {"browser", "hash", "memory"}

\* .replace(hashSubstitute, '#'): the first occurrence only
ReplaceFirst(s, c, d) ==
    IF IndexOf(s, c) = 0 THEN s ELSE [s EXCEPT ![IndexOf(s, c)] = d]

\* a getLocation that never throws
getLocationNeverThrows(m, entry) == FALSE

\* the memory driver's getLocation throws on a state without the marker
getLocationThrows(m, entry) == m = "memory" /\ ~entry.state.IS_MEMORY_HISTORY_STATE

\* the href getLocation(window) of the three drivers hands to createLocation
DriverHref(m, entry) ==
    IF m = "browser" THEN LocationHref(entry)
    ELSE IF m = "hash"
         THEN ReplaceFirst(decodeURIComponent(Drop(LocationHash(entry), 1)), SUB, HASH)
    ELSE entry.state.href

\* getLocation(window) of the three drivers, for the current entry
getLocation(m, entry, id) == createLocation(DriverHref(m, entry), entry.state.state, id)

\* the base URL the hash and memory drivers resolve `to` against
BaseOf(h) == ParseUrl(<<ORIGIN>> \o h)

\* a prepareUrl whose memory driver hands the target to the surface
prepareUrlMemoryNavigates(m, to, current) ==
    IF m = "hash"
    THEN LET url == Resolve(to, BaseOf(Href(current)))
             hash == IF Len(url.hash) > 1 THEN <<SUB>> \o Drop(url.hash, 1) ELSE <<>>
         IN  SomeUrl(<<HASH>> \o url.pathname \o url.search \o hash)
    ELSE SomeUrl(to)

\* a prepareUrl whose hash driver does not resolve `to` against the location
prepareUrlUnresolved(m, to, current) ==
    IF m = "browser" THEN SomeUrl(to)
    ELSE IF m = "hash" THEN SomeUrl(<<HASH>> \o to)
    ELSE NoUrl

\* prepareUrl(to, currentLocation) of the three drivers
prepareUrl(m, to, current) ==
    IF m = "browser" THEN SomeUrl(to)
    ELSE IF m = "hash"
         THEN LET url == Resolve(to, BaseOf(Href(current)))
                  hash == IF Len(url.hash) > 1 THEN <<SUB>> \o Drop(url.hash, 1) ELSE <<>>
              IN  SomeUrl(<<HASH>> \o url.pathname \o url.search \o hash)
    ELSE NoUrl

\* an envelope that stores null in place of the caller's state
EnvelopeWithoutState(state, to, currentHref) ==
    LET url == Resolve(to, BaseOf(currentHref))
    IN  [IS_MEMORY_HISTORY_STATE |-> TRUE, state |-> NULL,
         href |-> url.pathname \o url.search \o url.hash]

\* the memory driver's envelope
Envelope(state, to, currentHref) ==
    LET url == Resolve(to, BaseOf(currentHref))
    IN  [IS_MEMORY_HISTORY_STATE |-> TRUE, state |-> state,
         href |-> url.pathname \o url.search \o url.hash]

\* prepareState that stores the target and drops the caller's state
prepareStateDropsState(m, state, to, current) ==
    IF m = "memory" THEN Envelope(UNDEFINED, to, Href(current)) ELSE PlainState(UNDEFINED)

\* prepareState(state, to, currentLocation) of the three drivers
prepareState(m, state, to, current) ==
    IF m = "memory" THEN Envelope(state, to, Href(current)) ELSE PlainState(state)

\* ------------------------------------------------------------ the engine
\* the listener calls of one change: listeners.forEach(listener => listener({action,
\* location, from})), made after `location` and `from` were assigned; `seen` is
\* history.location and `length` history.length as the listener reads them
\* during its call.
Notify(ls, action, newLocation, newFrom, engineLocation, surfaceLength) ==
    [k \in 1..Len(ls) |->
        [listener |-> ls[k], action |-> action, location |-> newLocation,
         from |-> newFrom, seen |-> engineLocation, length |-> surfaceLength]]

\* triggerChange that calls the listeners before it assigns `location`
triggerChangeNotifiesFirst(action, h, i) ==
    IF getLocationThrows(mode, h[i])
    THEN [from |-> location, location |-> location, notified |-> <<>>, threw |-> TRUE]
    ELSE LET newLocation == getLocation(mode, h[i], nextId)
         IN  [from |-> location, location |-> newLocation,
              notified |-> Notify(listeners, action, newLocation, location, location, Len(h)),
              threw |-> FALSE]

\* triggerChange with `from` assigned after `location`
triggerChangeFromLate(action, h, i) ==
    IF getLocationThrows(mode, h[i])
    THEN [from |-> from, location |-> location, notified |-> <<>>, threw |-> TRUE]
    ELSE LET newLocation == getLocation(mode, h[i], nextId)
         IN  [from |-> newLocation, location |-> newLocation,
              notified |-> Notify(listeners, action, newLocation, newLocation, newLocation,
                                 Len(h)),
              threw |-> FALSE]

\* triggerChange(action) on the surface (h, i): the engine's new from and
\* location and the listener calls made.  When getLocation throws, `from` is
\* already assigned and nothing else happens.
triggerChange(action, h, i) ==
    IF getLocationThrows(mode, h[i]) \/ createLocationThrows(DriverHref(mode, h[i]))
    THEN [from |-> location, location |-> location, notified |-> <<>>, threw |-> TRUE]
    ELSE LET newLocation == getLocation(mode, h[i], nextId)
         IN  [from |-> location, location |-> newLocation,
              notified |-> Notify(listeners, action, newLocation, location, newLocation,
                                  Len(h)),
              threw |-> FALSE]

\* handlePop, the popstate callback the engine registers on the surface
handlePopAsPush(h, i) == triggerChange("PUSH", h, i)

\* a popstate callback that leaves the engine as it is
handlePopIgnored(h, i) ==
    [from |-> from, location |-> location, notified |-> <<>>, threw |-> FALSE]

handlePop(h, i) == triggerChange("POP", h, i)

\* Set.prototype.add, delete and clear on the insertion-ordered listeners
SetAddAgain(ls, l) == Append(ls, l)

SetAdd(ls, l) == IF \E k \in 1..Len(ls) : ls[k] = l THEN ls ELSE Append(ls, l)

SetDeleteNothing(ls, l) == ls

SetDeleteEveryone(ls, l) == <<>>

SetDeleteOrOldest(ls, l) ==
    IF \E k \in 1..Len(ls) : ls[k] = l THEN SelectSeq(ls, LAMBDA x : x # l)
    ELSE IF ls = <<>> THEN ls ELSE Tail(ls)

SetDelete(ls, l) == SelectSeq(ls, LAMBDA x : x # l)

SetClearNothing(ls) == ls

SetClear(ls) == <<>>

\* the surface's addEventListener and removeEventListener: only popstate counts
addEventListener(callbacks, name, callback) ==
    IF name = "popstate" THEN callbacks \cup {callback} ELSE callbacks

removeEventListenerNothing(callbacks, name, callback) == callbacks

\* a removeEventListener that drops every callback
removeEventListenerOfAll(callbacks, name, callback) == {}

removeEventListener(callbacks, name, callback) ==
    IF name = "popstate" THEN callbacks \ {callback} ELSE callbacks


\* ------------------------------------------------------------ inputs
\* the calls push(to, state) and replace(to, state) are made with; UNDEFINED is
\* a call without a state, "s1" and "s2" are two objects of the caller
Navigations ==
    {[to |-> <<SLASH, "a">>, state |-> "s1"],
     [to |-> <<SLASH, "b", HASH, "y">>, state |-> UNDEFINED],
     [to |-> <<QMARK, "x">>, state |-> "s2"]}

\* the one call the specification of the subscriptions navigates with
OneNavigation == {[to |-> <<SLASH, "a">>, state |-> "s1"]}

\* what go(delta) is called with
Deltas == {-2, 0, 2}

\* the entries other code pushed on the surface before the engine was constructed
ForeignEntries == {0, 1}

\* the listener functions the callers hold
Listeners == {"L1", "L2"}

\* the listener the specification of the navigation subscribes
NavigationListeners == {"L1"}

\* the url foreign code pushed entries with before the engine was constructed
ForeignTarget == <<SLASH, "f">>

\* createMemoryHistory's `initial`
Initial == <<SLASH>>

\* ------------------------------------------------------------ construction
\* the surface as the factories find it: one initial entry and n entries
\* pushed by other code with state null
RECURSIVE ForeignHistory(_)
ForeignHistory(n) ==
    IF n = 0 THEN <<[url |-> RootUrl, state |-> PlainState(UNDEFINED)]>>
    ELSE pushState(ForeignHistory(n - 1), n, PlainState(NULL), SomeUrl(ForeignTarget))

\* createMemoryHistory applies `initial` with replaceState before createHistory
ConstructedHistory(m, n) ==
    IF m = "memory"
    THEN replaceState(ForeignHistory(n), n + 1, Envelope(NULL, Initial, <<>>), SomeUrl(<<>>))
    ELSE ForeignHistory(n)

\* no call was made from inside a listener
NoInner == [op |-> "none", to |-> <<>>, state |-> UNDEFINED]

NoCall ==
    [op |-> "create", to |-> <<>>, state |-> UNDEFINED, delta |-> 0, listener |-> "",
     threw |-> FALSE, location |-> NoLocation, from |-> NoLocation, index |-> 0,
     history |-> <<>>, listeners |-> <<>>, winListeners |-> {}, destroyed |-> FALSE,
     inner |-> NoInner]

\* the record of a call, with the state it started from
Call(op, to, state, delta, listener, threw) ==
    [op |-> op, to |-> to, state |-> state, delta |-> delta, listener |-> listener,
     threw |-> threw, location |-> location, from |-> from, index |-> index,
     history |-> history, listeners |-> listeners, winListeners |-> winListeners,
     destroyed |-> destroyed, inner |-> NoInner]

\* the value of `spent` where the calls of the disposers are not followed
Unfollowed == {"unfollowed"}

\* the Switch has not rendered yet
NotMounted == [mounted |-> FALSE]

\* no Switch is mounted
SwitchIdle == children = <<>> /\ rendered = NotMounted /\ scheduled = FALSE

\* the value of `since` where the time of the registrations is not followed
Untimed == [l \in {} |-> 0]

\* no second engine is on the surface
NoOther == [location |-> NoLocation, from |-> NoLocation, listeners |-> <<>>,
            notified |-> <<>>, destroyed |-> FALSE]

HarnessIdle ==
    /\ href = <<>> /\ parsed = NoLocation /\ slashed = NoLocation /\ reparsed = NoLocation
    /\ SwitchIdle
    /\ other = NoOther

EngineInit(m, n, ls, changes) ==
    /\ mode = m
    /\ history = ConstructedHistory(m, n)
    /\ index = n + 1
    /\ winListeners = addEventListener({}, "popstate", "handlePop")
    /\ location = getLocation(m, ConstructedHistory(m, n)[n + 1], 1)
    /\ from = NoLocation
    /\ listeners = <<>>
    /\ status = [l \in ls |-> "never"]
    /\ nextId = 2
    /\ budget = changes
    /\ last = NoCall
    /\ notified = <<>>
    /\ written = [k \in 1..(n + 1) |-> NoLocation]
    /\ destroyed = FALSE
    /\ pushed = IF n = 0 THEN 0 ELSE -1

Init ==
    /\ \E m \in Modes, n \in ForeignEntries : EngineInit(m, n, NavigationListeners, MaxChanges)
    /\ spent = Unfollowed
    /\ since = Untimed
    /\ HarnessIdle

\* ------------------------------------------------------------ operations
\* get length() of the History object
getLength == Len(history)

\* get state() of the History object
getState == location.state

\* a further Location object may be made
CanChange == budget > 0

\* the listener a mounted Switch subscribes through useLocation
SwitchListener == "Switch"

\* useLocation's listener, () => setNaNToUpdate(NaN), was among the calls made:
\* the component is due to render again
StateSet(calls) == \E k \in DOMAIN calls : calls[k].listener = SwitchListener

\* an engine that never assigns `from`
ChangedKeepsFrom(r) ==
    /\ from' = from
    /\ location' = r.location
    /\ notified' = r.notified
    /\ nextId' = IF r.threw THEN nextId ELSE nextId + 1
    /\ budget' = IF r.threw THEN budget ELSE budget - 1
    /\ scheduled' = (scheduled \/ StateSet(r.notified))

\* the engine after triggerChange returned (or threw) with result r
Changed(r) ==
    /\ from' = r.from
    /\ location' = r.location
    /\ notified' = r.notified
    /\ nextId' = IF r.threw THEN nextId ELSE nextId + 1
    /\ budget' = IF r.threw THEN budget ELSE budget - 1
    /\ scheduled' = (scheduled \/ StateSet(r.notified))

\* what push(to, state) or replace(to, state) means to write to its entry: `to`
\* resolved against the location the engine held at the call, and `state` itself
Written(to, state, current, id) ==
    LET url == Resolve(to, BaseOf(Href(current)))
    IN  PathRelative(url.pathname \o url.search \o url.hash, state, id)

\* push(to, state)
push(to, state) ==
    /\ CanChange
    /\ LET h == pushState(history, index, prepareState(mode, state, to, location),
                          prepareUrl(mode, to, location))
           r == triggerChange("PUSH", h, index + 1)
       IN  /\ history' = h
           /\ index' = index + 1
           /\ Changed(r)
           /\ written' = Append(Take(written, index), Written(to, state, location, nextId))
           /\ last' = Call("push", to, state, 0, "", r.threw)
    /\ pushed' = IF pushed >= 0 THEN pushed + 1 ELSE pushed
    /\ UNCHANGED <<winListeners, mode, listeners, status, destroyed, spent, since, harnessVars, other,
                   children, rendered>>

\* replace(to, state)
replace(to, state) ==
    /\ CanChange
    /\ LET h == replaceState(history, index, prepareState(mode, state, to, location),
                             prepareUrl(mode, to, location))
           r == triggerChange("REPLACE", h, index)
       IN  /\ history' = h
           /\ Changed(r)
           /\ written' = [written EXCEPT ![index] = Written(to, state, location, nextId)]
           /\ last' = Call("replace", to, state, 0, "", r.threw)
    /\ pushed' = -1
    /\ UNCHANGED <<index, winListeners, mode, listeners, status, destroyed, spent,
                   since, harnessVars, other, children, rendered>>

\* window.history.go(delta), called by the engine's go, back and forward or by
\* the surface's own controls: the cursor moves and, when it did move, every
\* registered popstate callback runs: handlePop is triggerChange('POP')
WindowGo(delta) ==
    LET i == goIndex(history, index, delta)
        pops == i # index /\ "handlePop" \in winListeners
        r == handlePop(history, i)
    IN  /\ pops /\ ~r.threw => CanChange
        /\ index' = i
        /\ IF pops THEN Changed(r)
           ELSE /\ notified' = <<>>
                /\ UNCHANGED <<from, location, nextId, budget, scheduled>>
        /\ last' = Call("go", <<>>, UNDEFINED, delta, "", pops /\ r.threw)
        /\ pushed' = -1
        /\ UNCHANGED <<history, winListeners, mode, listeners, status, written,
                       destroyed, spent, since, harnessVars, other, children, rendered>>

go(delta) == WindowGo(delta)

back == WindowGo(-1)

forward == WindowGo(1)

\* the user's back and forward buttons
popstate(delta) == WindowGo(delta)

\* the time of the latest registration among those that are active
Latest(times) == CHOOSE t \in {times[l] : l \in DOMAIN times} :
                     \A l \in DOMAIN times : times[l] <= t

\* the listeners the callers have subscribed and not removed since
Subscribed == {"subscribed", "subscribed again"}

\* subscribe(listener); the disposer it returns is held by the caller from now on
subscribe(l) ==
    /\ listeners' = SetAdd(listeners, l)
    /\ status' = [status EXCEPT ![l] = IF @ \in Subscribed THEN "subscribed again"
                                       ELSE "subscribed"]
    /\ notified' = <<>>
    /\ last' = Call("subscribe", <<>>, UNDEFINED, 0, l, FALSE)
    /\ since' = IF l \in DOMAIN since /\ since[l] = 0
                THEN [since EXCEPT ![l] = Latest(since) + 1] ELSE since
    /\ UNCHANGED <<history, index, winListeners, mode, location, from, nextId, budget,
                   written, destroyed, pushed, spent, harnessVars, other, switchVars>>

\* the status of listener l after the caller removed it
Removed(how, l) == [status EXCEPT ![l] = IF @ \in Subscribed THEN how ELSE @]

\* unsubscribe(listener)
unsubscribe(l) ==
    /\ listeners' = SetDelete(listeners, l)
    /\ status' = Removed("unsubscribed", l)
    /\ notified' = <<>>
    /\ last' = Call("unsubscribe", <<>>, UNDEFINED, 0, l, FALSE)
    /\ since' = IF l \in DOMAIN since THEN [since EXCEPT ![l] = 0] ELSE since
    /\ UNCHANGED <<history, index, winListeners, mode, location, from, nextId, budget,
                   written, destroyed, pushed, spent, harnessVars, other, switchVars>>

\* a disposer returned by an earlier subscribe(l): () => listeners.delete(listener)
dispose(l) ==
    /\ status[l] # "never"
    /\ listeners' = SetDelete(listeners, l)
    /\ status' = Removed("disposed", l)
    /\ spent' = IF spent = Unfollowed THEN spent ELSE spent \cup {l}
    /\ notified' = <<>>
    /\ last' = Call("dispose", <<>>, UNDEFINED, 0, l, FALSE)
    /\ since' = IF l \in DOMAIN since THEN [since EXCEPT ![l] = 0] ELSE since
    /\ UNCHANGED <<history, index, winListeners, mode, location, from, nextId, budget,
                   written, destroyed, pushed, harnessVars, other, switchVars>>

\* a further call of a disposer of l that has been called before
disposeAgain(l) ==
    /\ l \in spent
    /\ listeners' = SetDelete(listeners, l)
    /\ status' = Removed("disposed", l)
    /\ notified' = <<>>
    /\ last' = Call("dispose again", <<>>, UNDEFINED, 0, l, FALSE)
    /\ since' = IF l \in DOMAIN since THEN [since EXCEPT ![l] = 0] ELSE since
    /\ UNCHANGED <<history, index, winListeners, mode, location, from, nextId, budget,
                   written, destroyed, pushed, spent, harnessVars, other, switchVars>>

\* destroy()
destroy ==
    /\ winListeners' = removeEventListener(winListeners, "popstate", "handlePop")
    /\ listeners' = SetClear(listeners)
    /\ status' = [l \in DOMAIN status |->
                      IF status[l] \in Subscribed THEN "destroyed" ELSE status[l]]
    /\ destroyed' = TRUE
    /\ notified' = <<>>
    /\ last' = Call("destroy", <<>>, UNDEFINED, 0, "", FALSE)
    /\ since' = [l \in DOMAIN since |-> 0]
    /\ UNCHANGED <<history, index, mode, location, from, nextId, budget, written,
                   pushed, spent, harnessVars, other, switchVars>>

Next ==
    \/ \E n \in Navigations : push(n.to, n.state)
    \/ \E n \in Navigations : replace(n.to, n.state)
    \/ \E delta \in Deltas : go(delta)
    \/ back
    \/ forward
    \/ \E delta \in {-1, 1} : popstate(delta)
    \/ \E l \in NavigationListeners : subscribe(l)

\* navigation: three targets in the three modes, listeners that stay subscribed
Spec == Init /\ [][Next]_vars

\* ------------------------------------------------------------ the subscriptions
InitSubscriptions ==
    /\ \E m \in Modes, n \in ForeignEntries :
           EngineInit(m, n, Listeners, MaxSubscriptionChanges)
    /\ spent = Unfollowed
    /\ since = Untimed
    /\ HarnessIdle

NextSubscriptions ==
    \/ \E n \in OneNavigation : push(n.to, n.state)
    \/ \E n \in OneNavigation : replace(n.to, n.state)
    \/ \E delta \in Deltas : go(delta)
    \/ back
    \/ forward
    \/ \E delta \in {-1, 1} : popstate(delta)
    \/ \E l \in Listeners : subscribe(l)
    \/ \E l \in Listeners : unsubscribe(l)
    \/ \E l \in Listeners : dispose(l)
    \/ destroy

\* the whole interface in the three modes, navigating to one target
SpecSubscriptions == InitSubscriptions /\ [][NextSubscriptions]_vars

\* ------------------------------------------------------------ the disposers
InitDisposers ==
    /\ \E m \in Modes : EngineInit(m, 0, Listeners, MaxSubscriptionChanges)
    /\ spent = {}
    /\ since = Untimed
    /\ HarnessIdle

NextDisposers ==
    \/ \E n \in OneNavigation : push(n.to, n.state)
    \/ \E l \in Listeners : subscribe(l)
    \/ \E l \in Listeners : unsubscribe(l)
    \/ \E l \in Listeners : dispose(l)
    \/ \E l \in Listeners : disposeAgain(l)

\* subscribing and removing, with disposers that are called more than once
SpecDisposers == InitDisposers /\ [][NextDisposers]_vars

\* ------------------------------------------------------------ the order of the listeners
InitOrder ==
    /\ \E m \in Modes : EngineInit(m, 0, Listeners, MaxSubscriptionChanges)
    /\ spent = Unfollowed
    /\ since = [l \in Listeners |-> 0]
    /\ HarnessIdle

NextOrder ==
    \/ \E n \in OneNavigation : push(n.to, n.state)
    \/ back
    \/ forward
    \/ \E l \in Listeners : Latest(since) < MaxRegistrations /\ subscribe(l)
    \/ \E l \in Listeners : unsubscribe(l)
    \/ \E l \in Listeners : dispose(l)
    \/ destroy

\* subscribing and removing with the time of every registration followed
SpecOrder == InitOrder /\ [][NextOrder]_vars

\* ------------------------------------------------------------ a listener that navigates
\* the listener that, when it is called and is not inside a call of its own,
\* calls push or replace on the engine
Navigator == "N"

\* what the Navigator calls
InnerCalls ==
    {[op |-> "push", to |-> <<QMARK, "x">>, state |-> "s2"],
     [op |-> "replace", to |-> <<SLASH, "b", HASH, "y">>, state |-> UNDEFINED]}

ActionOf(op) == IF op = "push" THEN "PUSH" ELSE "REPLACE"

\* the closure of createHistory and the surface under it, as one value
Engine == [history |-> history, index |-> index, location |-> location, from |-> from,
           nextId |-> nextId, written |-> written]

\* push(to, state) or replace(to, state) up to its call of triggerChange, and the
\* two assignments triggerChange starts with
Navigated(e, op, to, state) ==
    LET h == IF op = "push"
             THEN pushState(e.history, e.index, prepareState(mode, state, to, e.location),
                            prepareUrl(mode, to, e.location))
             ELSE replaceState(e.history, e.index, prepareState(mode, state, to, e.location),
                               prepareUrl(mode, to, e.location))
        i == IF op = "push" THEN e.index + 1 ELSE e.index
        w == Written(to, state, e.location, e.nextId)
    IN  [history |-> h, index |-> i, from |-> e.location,
         location |-> getLocation(mode, h[i], e.nextId), nextId |-> e.nextId + 1,
         written |-> IF op = "push" THEN Append(Take(e.written, e.index), w)
                     ELSE [e.written EXCEPT ![e.index] = w]]

\* listeners.forEach(listener => listener({action, location, from})) of the
\* outer change on engine e: each call reads `location` and `from` of the closure
\* when it is made.  The listeners up to the Navigator are called with what the
\* outer change assigned; the Navigator then makes its inner call, whose own
\* forEach calls every listener; the outer loop goes on with the listeners after
\* the Navigator, on the closure as the inner change left it.  Gives the engine
\* after the loop and the calls made, in order.
ForEachAround(ls, at, action, e, innerAction, within) ==
    IF at = 0
    THEN [engine |-> e,
          calls |-> Notify(ls, action, e.location, e.from, e.location, Len(e.history))]
    ELSE [engine |-> within,
          calls |-> Notify(SubSeq(ls, 1, at), action, e.location, e.from, e.location,
                           Len(e.history))
                    \o Notify(ls, innerAction, within.location, within.from,
                              within.location, Len(within.history))
                    \o Notify(SubSeq(ls, at + 1, Len(ls)), action, within.location,
                              within.from, within.location, Len(within.history))]

\* the forEach of the outer change, with the inner call the Navigator makes
ForEach(ls, action, e, inner) ==
    ForEachAround(ls, IndexOf(ls, Navigator), action, e, ActionOf(inner.op),
                  Navigated(e, inner.op, inner.to, inner.state))

\* the changes a call makes: its own and, with the Navigator subscribed, the inner
Changes == IF \E k \in DOMAIN listeners : listeners[k] = Navigator THEN 2 ELSE 1

\* the engine and the surface when the outer call returns with result r
Returned(r) ==
    /\ history' = r.engine.history
    /\ index' = r.engine.index
    /\ location' = r.engine.location
    /\ from' = r.engine.from
    /\ nextId' = r.engine.nextId
    /\ written' = r.engine.written
    /\ notified' = r.calls
    /\ scheduled' = (scheduled \/ StateSet(r.calls))

\* push(to, state) or replace(to, state) on an engine whose listeners may hold
\* the Navigator
navigate(op, to, state, inner) ==
    /\ budget >= Changes
    /\ Returned(ForEach(listeners, ActionOf(op), Navigated(Engine, op, to, state), inner))
    /\ budget' = budget - Changes
    /\ last' = [Call(op, to, state, 0, "", FALSE) EXCEPT !.inner = inner]
    /\ pushed' = -1
    /\ UNCHANGED <<winListeners, mode, listeners, status, destroyed, spent, since,
                   harnessVars, other, children, rendered>>

InitNavigator ==
    /\ \E m \in Modes : EngineInit(m, 0, {"L1", Navigator}, MaxChanges)
    /\ spent = Unfollowed
    /\ since = Untimed
    /\ HarnessIdle

NextNavigator ==
    \/ \E n \in Navigations, inner \in InnerCalls : navigate("push", n.to, n.state, inner)
    \/ \E n \in Navigations, inner \in InnerCalls : navigate("replace", n.to, n.state, inner)
    \/ \E l \in {"L1", Navigator} : subscribe(l)
    \/ \E l \in {"L1", Navigator} : unsubscribe(l)

\* push and replace with a listener that navigates from inside its call
SpecNavigator == InitNavigator /\ [][NextNavigator]_vars

\* ------------------------------------------------------------ createMemoryHistory
\* The values of `initial` createMemoryHistory is given, each with the path,
\* search and hash it names from the root; the first is the default.
Initials ==
    {[initial |-> Initial, path |-> <<SLASH>>, search |-> <<>>, hash |-> <<>>],
     [initial |-> <<"a", QMARK, "x">>, path |-> <<SLASH, "a">>, search |-> <<QMARK, "x">>,
      hash |-> <<>>],
     [initial |-> <<SLASH, "b", HASH, "y">>, path |-> <<SLASH, "b">>, search |-> <<>>,
      hash |-> <<HASH, "y">>]}

\* no engine has been constructed on the surface yet
NoEngine == [NoCall EXCEPT !.op = "none"]

\* a surface left by other code, its cursor on any entry
InitMemory ==
    /\ mode = "memory"
    /\ \E n \in ForeignEntries : history = ForeignHistory(n)
    /\ index \in DOMAIN history
    /\ winListeners = {}
    /\ location = NoLocation
    /\ from = NoLocation
    /\ listeners = <<>>
    /\ status = [l \in NavigationListeners |-> "never"]
    /\ nextId = 1
    /\ budget = MaxChanges
    /\ last = NoEngine
    /\ notified = <<>>
    /\ written = [k \in DOMAIN history |-> NoLocation]
    /\ destroyed = FALSE
    /\ pushed = -1
    /\ spent = Unfollowed
    /\ since = Untimed
    /\ HarnessIdle

\* a construction that pushes the initial location as a new entry
ApplyInitialByPush(h, i, initial) == pushState(h, i, Envelope(NULL, initial, <<>>), NoUrl)

\* win.history.replaceState(prepareState(null, initial), '')
ApplyInitial(h, i, initial) == replaceState(h, i, Envelope(NULL, initial, <<>>), NoUrl)

\* createMemoryHistory({initial, window}) on the surface as it is
createMemoryHistory(initial) ==
    /\ last = NoEngine
    /\ history' = ApplyInitial(history, index, initial)
    /\ winListeners' = addEventListener(winListeners, "popstate", "handlePop")
    /\ location' = getLocation(mode, ApplyInitial(history, index, initial)[index], nextId)
    /\ nextId' = nextId + 1
    /\ last' = Call("createMemoryHistory", initial, UNDEFINED, 0, "", FALSE)
    /\ UNCHANGED <<index, mode, from, listeners, status, budget, notified, written,
                   destroyed, pushed, spent, since, harnessVars, other, switchVars>>

NextMemory ==
    \/ \E i \in Initials : createMemoryHistory(i.initial)
    \/ last # NoEngine /\ \E n \in Navigations : push(n.to, n.state)
    \/ last # NoEngine /\ \E n \in Navigations : replace(n.to, n.state)
    \/ last # NoEngine /\ back
    \/ last # NoEngine /\ forward

\* the memory engine from its construction on a surface other code has used
SpecMemory == InitMemory /\ [][NextMemory]_vars

\* ------------------------------------------------------------ the simulated surface alone
\* what pushState and replaceState of the surface are called with
SurfaceStates == {UNDEFINED, "s1"}

SurfaceUrls == {NoUrl, SomeUrl(<<SLASH, "a">>)}

\* createMockedWindow(): one entry, the cursor on it, no callback registered
InitSurface ==
    /\ mode = "memory" /\ history = ForeignHistory(0) /\ index = 1 /\ winListeners = {}
    /\ location = NoLocation /\ from = NoLocation /\ listeners = <<>>
    /\ status = [l \in Listeners |-> "never"] /\ nextId = 1 /\ budget = 0
    /\ last = NoEngine
    /\ notified = <<>> /\ written = <<>> /\ destroyed = FALSE /\ pushed = -1
    /\ spent = Unfollowed
    /\ since = Untimed
    /\ HarnessIdle

\* window.history.pushState(state, title, location) called on the surface
windowPushState(state, url) ==
    /\ Len(history) < MaxEntries
    /\ history' = pushState(history, index, PlainState(state), url)
    /\ index' = index + 1
    /\ last' = Call("pushState", <<>>, state, 0, "", FALSE)
    /\ UNCHANGED <<winListeners, mode, location, from, listeners, status, nextId, budget,
                   notified, written, destroyed, pushed, spent, since, harnessVars, other, switchVars>>

\* window.history.replaceState(state, title, location) called on the surface
windowReplaceState(state, url) ==
    /\ history' = replaceState(history, index, PlainState(state), url)
    /\ last' = Call("replaceState", <<>>, state, 0, "", FALSE)
    /\ UNCHANGED <<index, winListeners, mode, location, from, listeners, status, nextId,
                   budget, notified, written, destroyed, pushed, spent, since, harnessVars, other,
                   switchVars>>

NextSurface ==
    \/ \E state \in SurfaceStates, url \in SurfaceUrls : windowPushState(state, url)
    \/ \E state \in SurfaceStates, url \in SurfaceUrls : windowReplaceState(state, url)
    \/ \E delta \in Deltas \cup {-1, 1} : WindowGo(delta)

\* the simulated surface called directly, with no engine on it
SpecSurface == InitSurface /\ [][NextSurface]_vars

\* ------------------------------------------------------------ <Switch>
\* a RegExp without flags whose source is a literal text (empty: /(?:)/)
RegExp(source) == [type |-> "RegExp", source |-> source]

\* <Route path={path}>, an element with a path property
Route(path) == [element |-> TRUE, props |-> [path |-> path]]

\* a child that is no element: a text
Text == [element |-> FALSE, props |-> [text |-> "text"]]

\* regexp.exec(str): the index where the source is first found in str, 0 for null
Exec(regexp, str) ==
    LET n == Len(regexp.source)
        hits == {k \in 1..(Len(str) - n + 1) : SubSeq(str, k, k + n - 1) = regexp.source}
    IN  IF hits = {} THEN 0 ELSE CHOOSE k \in hits : \A j \in hits : k <= j

isValidElement(child) == child.element

\* path && typeof path === 'object' && typeof path.exec === 'function'
IsRegExp(props) == "path" \in DOMAIN props /\ props.path.type = "RegExp"

\* a Switch that goes on to the last child that matches
SwitchLastMatch(kids, currentPath) ==
    LET hits == {k \in DOMAIN kids : /\ isValidElement(kids[k])
                                     /\ IsRegExp(kids[k].props)
                                     /\ Exec(kids[k].props.path, currentPath) # 0}
    IN  [mounted |-> TRUE, threw |-> FALSE, path |-> currentPath,
         selected |-> IF hits = {} THEN 0 ELSE CHOOSE k \in hits : \A j \in hits : j <= k]

\* a Switch that looks at the path of every element child before it matches any
SwitchChecksFirst(kids, currentPath) ==
    IF \E k \in DOMAIN kids : isValidElement(kids[k]) /\ ~IsRegExp(kids[k].props)
    THEN [mounted |-> TRUE, threw |-> TRUE, path |-> currentPath, selected |-> 0]
    ELSE SwitchLastMatch(kids, currentPath)

\* the loop of Switch from child k on
RECURSIVE SwitchFrom(_, _, _)
SwitchFrom(kids, k, currentPath) ==
    IF k > Len(kids)
    THEN [mounted |-> TRUE, threw |-> FALSE, path |-> currentPath, selected |-> 0]
    ELSE IF ~isValidElement(kids[k]) THEN SwitchFrom(kids, k + 1, currentPath)
    ELSE IF IsRegExp(kids[k].props)
    THEN IF Exec(kids[k].props.path, currentPath) # 0
         THEN [mounted |-> TRUE, threw |-> FALSE, path |-> currentPath, selected |-> k]
         ELSE SwitchFrom(kids, k + 1, currentPath)
    ELSE [mounted |-> TRUE, threw |-> TRUE, path |-> currentPath, selected |-> 0]

\* Switch({children}) with the path useLocation read: the child it returns
\* (0: null), or that it threw
Switch(kids, currentPath) == SwitchFrom(kids, 1, currentPath)

\* the children a Switch is given
ChildrenLists ==
    {<<Route(RegExp(<<SLASH, "a">>)), Text, Route(RegExp(<<SLASH, "b">>)),
       Route(RegExp(<<SLASH, "b">>))>>,
     <<Route(RegExp(<<SLASH, "b">>)), Route(RegExp(<<>>))>>}

InitSwitch ==
    /\ \E m \in Modes : EngineInit(m, 0, {SwitchListener}, MaxChanges)
    /\ spent = Unfollowed
    /\ since = Untimed
    /\ href = <<>> /\ parsed = NoLocation /\ slashed = NoLocation /\ reparsed = NoLocation
    /\ other = NoOther
    /\ children \in ChildrenLists
    /\ rendered = NotMounted
    /\ scheduled = FALSE

\* the first render: useLocation subscribes its listener, Switch reads the path
mount ==
    /\ rendered = NotMounted
    /\ listeners' = SetAdd(listeners, SwitchListener)
    /\ status' = [status EXCEPT ![SwitchListener] = "subscribed"]
    /\ rendered' = Switch(children, location.path)
    /\ notified' = <<>>
    /\ last' = Call("mount", <<>>, UNDEFINED, 0, SwitchListener, FALSE)
    /\ UNCHANGED <<history, index, winListeners, mode, location, from, nextId, budget,
                   written, destroyed, pushed, spent, since, harnessVars, other, children, scheduled>>

\* the render that follows setNaNToUpdate(NaN)
render ==
    /\ rendered # NotMounted
    /\ scheduled
    /\ rendered' = Switch(children, location.path)
    /\ scheduled' = FALSE
    /\ UNCHANGED <<engineVars, harnessVars, other, children>>

NextSwitch ==
    \/ mount
    \/ render
    \/ \E n \in Navigations : push(n.to, n.state)
    \/ back
    \/ forward
    \/ destroy

\* a Switch mounted on an engine in the three modes
SpecSwitch == InitSwitch /\ [][NextSwitch]_vars

\* children of which one element has no path, or a path that is a string
FaultyChildrenLists ==
    {<<Route(RegExp(<<SLASH, "a">>)), [element |-> TRUE, props |-> [key |-> "k"]]>>,
     <<[element |-> TRUE, props |-> [key |-> "k"]], Route(RegExp(<<SLASH, "a">>))>>,
     <<Text, Route(RegExp(<<SLASH, "b">>)),
       Route([type |-> "string", source |-> <<SLASH, "b">>]), Route(RegExp(<<>>))>>}

InitFaulty ==
    /\ \E m \in Modes : EngineInit(m, 0, {SwitchListener}, MaxChanges)
    /\ spent = Unfollowed
    /\ since = Untimed
    /\ href = <<>> /\ parsed = NoLocation /\ slashed = NoLocation /\ reparsed = NoLocation
    /\ other = NoOther
    /\ children \in FaultyChildrenLists
    /\ rendered = NotMounted
    /\ scheduled = FALSE

\* a Switch with such children
SpecFaulty == InitFaulty /\ [][NextSwitch]_vars

\* ------------------------------------------------------------ the targets
\* The targets push and replace are called with in the specification of the
\* targets, each with the path, search and hash it names as a URL gives them
\* (an empty path: the target names none).
Targets ==
    {[to |-> <<SLASH, "a">>, state |-> "s1",
      path |-> <<SLASH, "a">>, search |-> <<>>, hash |-> <<>>],
     [to |-> <<QMARK, "x">>, state |-> UNDEFINED,
      path |-> <<>>, search |-> <<QMARK, "x">>, hash |-> <<>>],
     [to |-> <<HASH, "y">>, state |-> "s2",
      path |-> <<>>, search |-> <<>>, hash |-> <<HASH, "y">>],
     [to |-> <<SLASH, "b", QMARK, "x", HASH, "y">>, state |-> UNDEFINED,
      path |-> <<SLASH, "b">>, search |-> <<QMARK, "x">>, hash |-> <<HASH, "y">>]}

\* targets that hold the hash substitute, in the path and in the search; the URL
\* parser percent-encodes it
SubstituteTargets ==
    {[to |-> <<SLASH, SUB>>, state |-> UNDEFINED,
      path |-> <<SLASH, ENC_SUB>>, search |-> <<>>, hash |-> <<>>],
     [to |-> <<SLASH, "a", QMARK, SUB>>, state |-> UNDEFINED,
      path |-> <<SLASH, "a">>, search |-> <<QMARK, ENC_SUB>>, hash |-> <<>>]}

InitTargets ==
    /\ \E m \in Modes, n \in ForeignEntries : EngineInit(m, n, NavigationListeners, MaxChanges)
    /\ spent = Unfollowed
    /\ since = Untimed
    /\ HarnessIdle

NextTargets ==
    \/ \E n \in Targets : push(n.to, n.state)
    \/ \E n \in Targets : replace(n.to, n.state)

\* push and replace alone, with targets of every kind, in the three modes
SpecTargets == InitTargets /\ [][NextTargets]_vars

InitSubstitute ==
    /\ \E n \in ForeignEntries : EngineInit("hash", n, NavigationListeners, MaxChanges)
    /\ spent = Unfollowed
    /\ since = Untimed
    /\ HarnessIdle

NextSubstitute ==
    \/ \E n \in Targets \cup SubstituteTargets : push(n.to, n.state)
    \/ \E n \in Targets \cup SubstituteTargets : replace(n.to, n.state)

\* the hash driver alone, also with targets that hold the hash substitute
SpecSubstitute == InitSubstitute /\ [][NextSubstitute]_vars

\* ------------------------------------------------------------ targets with a colon
\* targets without a scheme that hold a colon in the search or in the hash
ColonTargets ==
    {[to |-> <<SLASH, "a", QMARK, "x", COLON, "y">>, state |-> "s1",
      path |-> <<SLASH, "a">>, search |-> <<QMARK, "x", COLON, "y">>, hash |-> <<>>],
     [to |-> <<SLASH, "b", HASH, COLON, "y">>, state |-> UNDEFINED,
      path |-> <<SLASH, "b">>, search |-> <<>>, hash |-> <<HASH, COLON, "y">>]}

InitColon ==
    /\ \E m \in Modes : EngineInit(m, 0, NavigationListeners, MaxChanges)
    /\ spent = Unfollowed
    /\ since = Untimed
    /\ HarnessIdle

NextColon ==
    \/ \E n \in OneNavigation : push(n.to, n.state)
    \/ \E n \in ColonTargets : Len(history) < MaxEntries /\ push(n.to, n.state)
    \/ back
    \/ \E l \in NavigationListeners : subscribe(l)

\* navigation in the three modes, also to targets that hold a colon
SpecColon == InitColon /\ [][NextColon]_vars

\* ------------------------------------------------------------ two engines on one surface
\* handlePop of the second engine, a callback of its own on the surface
OtherHandlePop == "handlePop of the other"

\* the listener callers subscribe to the second engine
OtherListeners == {"L2"}

\* the driver cannot make a Location of the entry
Unreadable(entry) ==
    getLocationThrows(mode, entry) \/ createLocationThrows(DriverHref(mode, entry))

\* triggerChange(action) in the closure c of the second engine, on the surface
\* (h, i); when getLocation throws, `from` is already assigned
triggerChangeOf(c, action, h, i, id) ==
    IF Unreadable(h[i])
    THEN [c EXCEPT !.from = c.location, !.notified = <<>>]
    ELSE [c EXCEPT !.from = c.location,
                   !.location = getLocation(mode, h[i], id),
                   !.notified = Notify(c.listeners, action, getLocation(mode, h[i], id),
                                       c.location, getLocation(mode, h[i], id), Len(h))]

\* the first engine, just constructed
InitShared ==
    /\ \E m \in Modes, n \in ForeignEntries :
           EngineInit(m, n, NavigationListeners, MaxChanges)
    /\ spent = Unfollowed
    /\ since = Untimed
    /\ HarnessIdle

\* the surface after the factory of the second engine ran: createMemoryHistory
\* applies `initial` to the current entry, the other two leave the surface alone
SharedHistory == IF mode = "memory" THEN ApplyInitial(history, index, Initial) ELSE history

\* the second engine is constructed, in the mode of the first, on the same
\* surface: its location is read and its handlePop registered
otherCreate ==
    /\ last = NoCall
    /\ history' = SharedHistory
    /\ winListeners' = addEventListener(winListeners, "popstate", OtherHandlePop)
    /\ other' = [NoOther EXCEPT !.location = getLocation(mode, SharedHistory[index], nextId)]
    /\ nextId' = nextId + 1
    /\ last' = Call("create other", <<>>, UNDEFINED, 0, "", FALSE)
    /\ notified' = <<>>
    /\ UNCHANGED <<index, mode, location, from, listeners, status, budget, written,
                   destroyed, pushed, spent, since, harnessVars, switchVars>>

\* subscribe(listener) of the second engine
otherSubscribe(l) ==
    /\ last # NoCall
    /\ other' = [other EXCEPT !.listeners = SetAdd(@, l), !.notified = <<>>]
    /\ notified' = <<>>
    /\ last' = Call("subscribe other", <<>>, UNDEFINED, 0, l, FALSE)
    /\ UNCHANGED <<history, index, winListeners, mode, location, from, listeners, status,
                   nextId, budget, written, destroyed, pushed, spent, since, harnessVars,
                   switchVars>>

\* push(to, state) of the second engine
otherPush(to, state) ==
    /\ last # NoCall
    /\ CanChange
    /\ LET h == pushState(history, index, prepareState(mode, state, to, other.location),
                          prepareUrl(mode, to, other.location))
       IN  /\ history' = h
           /\ other' = triggerChangeOf(other, "PUSH", h, index + 1, nextId)
    /\ index' = index + 1
    /\ nextId' = nextId + 1
    /\ budget' = budget - 1
    /\ written' = Append(Take(written, index), Written(to, state, other.location, nextId))
    /\ notified' = <<>>
    /\ last' = Call("push other", to, state, 0, "", FALSE)
    /\ pushed' = -1
    /\ UNCHANGED <<winListeners, mode, location, from, listeners, status, destroyed, spent,
                   since, harnessVars, switchVars>>

\* destroy() of the second engine
otherDestroy ==
    /\ last # NoCall
    /\ winListeners' = removeEventListener(winListeners, "popstate", OtherHandlePop)
    /\ other' = [other EXCEPT !.listeners = SetClear(@), !.destroyed = TRUE,
                              !.notified = <<>>]
    /\ notified' = <<>>
    /\ last' = Call("destroy other", <<>>, UNDEFINED, 0, "", FALSE)
    /\ UNCHANGED <<history, index, mode, location, from, listeners, status, nextId, budget,
                   written, destroyed, pushed, spent, since, harnessVars, switchVars>>

\* the first engine after the popstate callbacks ran: r is what its handlePop
\* made, when it was called
Popped(called, r) ==
    /\ from' = IF called THEN r.from ELSE from
    /\ location' = IF called THEN r.location ELSE location
    /\ notified' = IF called THEN r.notified ELSE <<>>
    /\ scheduled' = (scheduled \/ (called /\ StateSet(r.notified)))

\* window.history.go(delta) on the shared surface: the cursor moves and, when it
\* did move, the registered popstate callbacks run in the order of their
\* registration.  When the first throws, the simulated surface stops there
\* (its forEach is left) and a browser goes on to the second: goesOn.
sharedGo(delta, goesOn) ==
    LET i == goIndex(history, index, delta)
        moved == i # index
        first == moved /\ "handlePop" \in winListeners
        second == /\ moved
                  /\ OtherHandlePop \in winListeners
                  /\ (first /\ Unreadable(history[i])) => goesOn
    IN  /\ last # NoCall
        /\ moved /\ ~Unreadable(history[i]) => CanChange
        /\ index' = i
        /\ Popped(first, handlePop(history, i))
        /\ other' = IF second THEN triggerChangeOf(other, "POP", history, i, nextId + 1)
                    ELSE [other EXCEPT !.notified = <<>>]
        /\ nextId' = IF moved /\ ~Unreadable(history[i]) THEN nextId + 2 ELSE nextId
        /\ budget' = IF moved /\ ~Unreadable(history[i]) THEN budget - 1 ELSE budget
        /\ last' = Call("go", <<>>, UNDEFINED, delta, "",
                        (first \/ second) /\ Unreadable(history[i]))
        /\ pushed' = -1
        /\ UNCHANGED <<history, winListeners, mode, listeners, status, written, destroyed,
                       spent, since, harnessVars, children, rendered>>

NextShared ==
    \/ otherCreate
    \/ \E l \in OtherListeners : otherSubscribe(l)
    \/ \E n \in OneNavigation : otherPush(n.to, n.state)
    \/ otherDestroy
    \/ \E delta \in {-1, 1}, goesOn \in BOOLEAN : sharedGo(delta, goesOn)
    \/ \E l \in NavigationListeners : last # NoCall /\ subscribe(l)
    \/ \E n \in OneNavigation : last # NoCall /\ push(n.to, n.state)
    \/ last # NoCall /\ destroy

\* two engines of one mode on the same surface
SpecShared == InitShared /\ [][NextShared]_vars

\* ------------------------------------------------------------ createLocation alone
\* every href up to MaxHrefLen characters is handed to createLocation once
EngineIdle ==
    /\ mode = "browser" /\ history = <<>> /\ index = 0 /\ winListeners = {}
    /\ location = NoLocation /\ from = NoLocation /\ listeners = <<>>
    /\ status = [l \in Listeners |-> "never"] /\ nextId = 1 /\ budget = 0
    /\ last = NoCall
    /\ notified = <<>> /\ written = <<>> /\ destroyed = FALSE /\ pushed = -1
    /\ spent = Unfollowed
    /\ since = Untimed

InitLocation ==
    /\ EngineIdle
    /\ href \in StringsUpTo(HrefChars, MaxHrefLen)
    /\ parsed = NoLocation
    /\ slashed = NoLocation
    /\ reparsed = NoLocation
    /\ SwitchIdle
    /\ other = NoOther

parse ==
    /\ parsed = NoLocation
    /\ parsed' = createLocation(href, UNDEFINED, 1)
    /\ slashed' = createLocation(href \o <<SLASH>>, UNDEFINED, 2)
    /\ reparsed' = createLocation(createLocation(href, UNDEFINED, 1).path, UNDEFINED, 3)
    /\ UNCHANGED <<href, engineVars, switchVars, other>>

NextLocation == parse

SpecLocation == InitLocation /\ [][NextLocation]_vars

\* ------------------------------------------------------------ what the claims speak of
\* the last call changed the location and ran the listeners
Delivered ==
    /\ last.op \in {"push", "replace", "go"}
    /\ ~last.threw
    /\ location.id # last.location.id

\* the last call was a go, back, forward or a move by the surface's controls
\* that changed the cursor
CursorMoved == last.op = "go" /\ index # last.index

\* the number of calls the last operation made to listener l with tag `action`
Calls(l, action) ==
    Cardinality({k \in DOMAIN notified : notified[k].listener = l /\ notified[k].action = action})

\* the number of calls the last operation made to listener l
AllCalls(l) == Cardinality({k \in DOMAIN notified : notified[k].listener = l})

\* the listeners the callers hold as subscribed
SubscribedListeners == {l \in DOMAIN status : status[l] \in Subscribed}

\* every subscribed listener was called exactly once, with tag `action`, and
\* nobody else was called
OneEach(action) ==
    /\ \A l \in SubscribedListeners : Calls(l, action) = 1
    /\ \A k \in DOMAIN notified :
          notified[k].action = action /\ notified[k].listener \in SubscribedListeners
    /\ Len(notified) = Cardinality(SubscribedListeners)

SameParts(a, b) == a.path = b.path /\ a.search = b.search /\ a.hash = b.hash

\* ------------------------------------------------------------ C1
\* C1: every notification carries as `location` the very Location the engine
\* exposes during the call, and as `from` the Location the engine held before
\* the change.
C1_NotificationMatchesEngine ==
    \A k \in DOMAIN notified :
        /\ notified[k].location = notified[k].seen
        /\ notified[k].location = location
        /\ notified[k].from = last.location
        /\ notified[k].from = from
        /\ notified[k].location.id # notified[k].from.id

\* a pop in hash mode reached the listener of an engine that had pushed before
C1_Witness ==
    /\ mode = "hash"
    /\ last.op = "go"
    /\ Len(notified) = 1
    /\ notified[1].action = "POP"
    /\ notified[1].from.path = <<SLASH, "a">>
    /\ notified[1].location.path = <<SLASH>>

C3_PopRestoresWrittenEntry ==
    (CursorMoved /\ written[index].id # 0) =>
        /\ \A k \in DOMAIN notified :
              /\ notified[k].action = "POP"
              /\ SameParts(notified[k].location, written[index])
              /\ notified[k].location.state = written[index].state
              /\ notified[k].from = last.location
        /\ ~last.destroyed =>
              /\ ~last.threw
              /\ Len(notified) = Len(listeners)
              /\ SameParts(location, written[index])
              /\ location.state = written[index].state

\* in memory mode a move of two entries lands on the entry that push("?x", s2)
\* wrote and the listener is told so
C3_Witness ==
    /\ mode = "memory"
    /\ CursorMoved
    /\ last.delta = -2
    /\ written[index].state = "s2"
    /\ written[index].search = <<QMARK, "x">>
    /\ Len(notified) = 1
    /\ notified[1].location.state = "s2"

\* ------------------------------------------------------------ C4
\* C4: a push at cursor i keeps the entries up to i, appends one and moves the
\* cursor onto it (the length is the old cursor plus one, 1-based); a forward at
\* the last entry changes nothing and calls nobody; on a fresh surface n pushes
\* give the length n + 1.
C4_PushTruncatesAndAppends ==
    /\ last.op = "push" =>
          /\ Len(history) = last.index + 1
          /\ index = last.index + 1
          /\ Take(history, last.index) = Take(last.history, last.index)
    /\ (last.op = "go" /\ last.delta = 1 /\ last.index = Len(last.history)) =>
          /\ index = last.index
          /\ history = last.history
          /\ location = last.location
          /\ from = last.from
          /\ notified = <<>>
    /\ pushed >= 0 => Len(history) = pushed + 1

\* a push made two entries before the end dropped both of them
C4_Witness ==
    /\ last.op = "push"
    /\ last.index + 2 = Len(last.history)
    /\ Len(history) = last.index + 1
    /\ Len(notified) = 1

\* ------------------------------------------------------------ C5
\* C5: a replace leaves the length, the cursor and every entry but the one at
\* the cursor as they were, and stores the state passed to it; a go(-1) onto an
\* entry written earlier still yields the location and state written there.
C5_ReplaceOverwritesCursorEntryOnly ==
    /\ last.op = "replace" =>
          /\ Len(history) = Len(last.history)
          /\ index = last.index
          /\ \A j \in DOMAIN history : j # index => history[j] = last.history[j]
          /\ history[index].state.state = last.state
          /\ location.state = last.state
    /\ (CursorMoved /\ last.delta = -1 /\ written[index].id # 0 /\ ~last.destroyed) =>
          /\ SameParts(location, written[index])
          /\ location.state = written[index].state

\* a replace in the middle of three or more entries changed the entry it was on
C5_Witness ==
    /\ last.op = "replace"
    /\ 1 < index
    /\ index < Len(history)
    /\ history[index] # last.history[index]
    /\ Len(notified) = 1

\* ------------------------------------------------------------ C6
\* C6: no call of the engine calls a listener twice, and a change calls every
\* subscribed listener exactly once, however often it was passed to subscribe.
C6_ListenerRegisteredOnce ==
    /\ \A l \in DOMAIN status : AllCalls(l) <= 1
    /\ Delivered => \A l \in SubscribedListeners : AllCalls(l) = 1

\* a change called a listener once that had been subscribed twice
C6_Witness ==
    /\ Delivered
    /\ status["L1"] = "subscribed again"
    /\ AllCalls("L1") = 1

\* ------------------------------------------------------------ C7
\* C7: a listener removed by its disposer or by unsubscribe, and not subscribed
\* since, is called by no change, while a change still calls every listener that
\* is subscribed.
C7_RemovedListenerNotNotified ==
    /\ \A k \in DOMAIN notified :
          status[notified[k].listener] \notin {"disposed", "unsubscribed"}
    /\ Delivered => \A l \in SubscribedListeners : \E k \in DOMAIN notified :
                        notified[k].listener = l

\* a push called L2 and not L1, which its disposer had removed
C7_Witness ==
    /\ last.op = "push"
    /\ status["L1"] = "disposed"
    /\ status["L2"] \in Subscribed
    /\ AllCalls("L1") = 0
    /\ AllCalls("L2") = 1

\* ------------------------------------------------------------ C8
\* C8 as stated: a listener that a destroy removed, and that nobody subscribed
\* since, is called by no later operation; a destroy of an engine already
\* destroyed does not throw and changes nothing.
C8_SecondDestroyChangesNothing ==
    /\ \A k \in DOMAIN notified : status[notified[k].listener] # "destroyed"
    /\ (last.op = "destroy" /\ last.destroyed) =>
          /\ ~last.threw
          /\ listeners = last.listeners
          /\ winListeners = last.winListeners
          /\ location = last.location
          /\ from = last.from
          /\ history = last.history
          /\ index = last.index

\* C8 as amended: a listener that a destroy removed, and that nobody subscribed
\* since, is called by no later operation; a destroy of an engine already
\* destroyed does not throw, removes the listeners subscribed since the first
\* destroy and changes nothing else.
C8_DestroyRemovesListeners ==
    /\ \A k \in DOMAIN notified : status[notified[k].listener] # "destroyed"
    /\ last.op = "destroy" => listeners = <<>> /\ SubscribedListeners = {}
    /\ (last.op = "destroy" /\ last.destroyed) =>
          /\ ~last.threw
          /\ winListeners = last.winListeners
          /\ location = last.location
          /\ from = last.from
          /\ history = last.history
          /\ index = last.index

\* a push after a destroy called L2, subscribed after the destroy, and not L1,
\* which was subscribed at the destroy
C8_Witness ==
    /\ last.op = "push"
    /\ destroyed
    /\ status["L1"] = "destroyed"
    /\ AllCalls("L1") = 0
    /\ AllCalls("L2") = 1

\* ------------------------------------------------------------ C9
\* C9 as stated: once destroy was called, no operation calls any listener.
C9_DestroyedIsFinal == destroyed => notified = <<>>

\* C9 as amended: once destroy was called, no go, back, forward or move by the
\* surface's controls calls any listener or changes location and from; a push
\* or replace still calls every listener subscribed after the destroy.
C9_DestroyedIgnoresPops ==
    /\ (destroyed /\ last.op \notin {"push", "replace"}) => notified = <<>>
    /\ (destroyed /\ last.op = "go") => location = last.location /\ from = last.from
    /\ (destroyed /\ last.op = "push") => OneEach("PUSH")
    /\ (destroyed /\ last.op = "replace") => OneEach("REPLACE")

\* after a destroy the cursor moved while a listener was subscribed, and nobody
\* was called
C9_Witness ==
    /\ destroyed
    /\ CursorMoved
    /\ listeners # <<>>
    /\ notified = <<>>

\* ------------------------------------------------------------ C10
\* C10: the path createLocation produces begins with exactly one slash, holds no
\* two slashes in a row, and ends with a slash only when it is "/".
C10_PathNormalized ==
    parsed # NoLocation =>
        /\ Len(parsed.path) >= 1
        /\ parsed.path[1] = SLASH
        /\ \A k \in 1..(Len(parsed.path) - 1) :
              ~(parsed.path[k] = SLASH /\ parsed.path[k + 1] = SLASH)
        /\ parsed.path[Len(parsed.path)] = SLASH => parsed.path = <<SLASH>>

\* ------------------------------------------------------------ C11
\* the href is a path (no search, no hash) that does not end with a slash and
\* whose Location is not the root
NonRootPath ==
    /\ href # <<>>
    /\ \A k \in DOMAIN href : href[k] \notin {QMARK, HASH}
    /\ href[Len(href)] # SLASH
    /\ parsed.path # <<SLASH>>

\* C11: for a non-root path p that does not end with a slash, createLocation of
\* p followed by a slash has the path createLocation(p) has.
C11_TrailingSlashOnlySlashes ==
    (parsed # NoLocation /\ NonRootPath) => slashed.path = parsed.path

\* ------------------------------------------------------------ C12
\* C12: createLocation of the path of createLocation(x) has that same path.
C12_PathNormalizationIdempotent ==
    parsed # NoLocation => reparsed.path = parsed.path

\* ------------------------------------------------------------ C13
\* in memory mode the last call moved the cursor onto an entry whose state
\* does not carry the marker
OutOfMemoryHistory ==
    /\ mode = "memory"
    /\ CursorMoved
    /\ ~history[index].state.IS_MEMORY_HISTORY_STATE

\* C13 as stated: in memory mode every cursor move onto an entry without the
\* marker raises `navigation out of memory history` and calls no listener.
C13_OutOfMemoryHistoryThrows ==
    OutOfMemoryHistory => last.threw /\ notified = <<>>

\* C13 as amended: in memory mode a cursor move onto an entry without the marker
\* raises the error, calls no listener and leaves `location` as it was, while
\* the engine has not been destroyed; on a destroyed engine the move raises
\* nothing and calls nobody.  Nothing else raises.
C13_LiveEngineThrowsOutOfMemoryHistory ==
    /\ (OutOfMemoryHistory /\ ~last.destroyed) =>
          last.threw /\ notified = <<>> /\ location = last.location
    /\ (OutOfMemoryHistory /\ last.destroyed) => ~last.threw /\ notified = <<>>
    /\ last.threw => OutOfMemoryHistory

\* back() onto an entry other code wrote raised while a listener was subscribed
C13_Witness ==
    /\ OutOfMemoryHistory
    /\ last.delta = -1
    /\ last.threw
    /\ listeners # <<>>
    /\ notified = <<>>

\* ------------------------------------------------------------ C14
\* the entry a go(delta) of the last call has to land on: the cursor plus delta,
\* brought back into the sequence
ClampedTarget ==
    IF last.index + last.delta < 1 THEN 1
    ELSE IF last.index + last.delta > Len(last.history) THEN Len(last.history)
    ELSE last.index + last.delta

\* the last call was a go, back, forward or surface move whose clamped target
\* is the entry the cursor was on
StaysPut == last.op = "go" /\ ClampedTarget = last.index

\* the last call was one whose clamped target is another entry
MovesAway == last.op = "go" /\ ClampedTarget # last.index

\* a clamped target equal to the cursor changes nothing and calls nobody
NoMoveNoChange ==
    StaysPut =>
        /\ index = last.index
        /\ location = last.location
        /\ from = last.from
        /\ history = last.history
        /\ ~last.threw
        /\ notified = <<>>

\* C14 as stated: go(delta) puts the cursor on the clamped target; when that is
\* the entry it was on, nothing changes and nobody is called; otherwise every
\* subscribed listener is called exactly once, with POP.
C14_GoClampsAndNotifies ==
    /\ last.op = "go" => index = ClampedTarget
    /\ NoMoveNoChange
    /\ MovesAway => OneEach("POP")

\* C14 as amended: go(delta) puts the cursor on the clamped target; when that is
\* the entry it was on, nothing changes and nobody is called; otherwise every
\* subscribed listener is called exactly once, with POP, provided the engine has
\* not been destroyed and re-deriving the location does not raise; in these two
\* cases the cursor moves all the same and nobody is called.
C14_GoClampsAndLiveEngineNotifies ==
    /\ last.op = "go" => index = ClampedTarget /\ Len(history) = Len(last.history)
    /\ NoMoveNoChange
    /\ (MovesAway /\ ~last.destroyed /\ ~last.threw) => OneEach("POP")
    /\ (MovesAway /\ (last.destroyed \/ last.threw)) =>
          notified = <<>> /\ location = last.location

\* a go(2) one entry before the last moved the cursor one entry only, and the
\* two subscribed listeners were called once each
C14_Witness ==
    /\ last.op = "go"
    /\ last.delta = 2
    /\ last.index + 1 = Len(last.history)
    /\ index = Len(history)
    /\ Calls("L1", "POP") = 1
    /\ Calls("L2", "POP") = 1

Target == CHOOSE n \in Targets \cup SubstituteTargets : n.to = last.to

\* the location after the last call is its target resolved against the
\* location before it: a target without a path keeps the path, a target that
\* is a hash only keeps the search too, and the rest is the target's
ResolvedAgainstCurrent ==
    /\ location.path = IF Target.path = <<>> THEN last.location.path ELSE Target.path
    /\ location.search = IF last.to[1] = HASH THEN last.location.search ELSE Target.search
    /\ location.hash = Target.hash

\* C16: in each of the three modes the location after a push is the target
\* resolved against the location before it: a search-only target keeps the
\* path, sets the search and clears the hash; a hash-only target keeps path and
\* search and sets the hash; an absolute path replaces all three.
C16_PushResolvesAgainstCurrent ==
    last.op = "push" => ResolvedAgainstCurrent

\* in hash mode push("#y") at /a?x kept the path and the search
C16_Witness ==
    /\ mode = "hash"
    /\ last.op = "push"
    /\ last.to = <<HASH, "y">>
    /\ last.location.hash = <<>>
    /\ location.path = <<SLASH, "a">>
    /\ location.search = <<QMARK, "x">>
    /\ location.hash = <<HASH, "y">>

\* ------------------------------------------------------------ C17
\* the path, search and hash of the target of the last call, resolved against
\* the location before it
ResolvedTarget ==
    [path |-> IF Target.path = <<>> THEN last.location.path ELSE Target.path,
     search |-> IF last.to[1] = HASH THEN last.location.search ELSE Target.search,
     hash |-> Target.hash]

\* the fragment the hash driver gives the surface for the resolved target, as
\* the surface shows it: the substitute stands for the "#" of the target's hash
ExpectedFragment ==
    <<HASH>> \o ResolvedTarget.path \o ResolvedTarget.search
        \o (IF ResolvedTarget.hash = <<>> THEN <<>>
            ELSE <<ENC_SUB>> \o Drop(ResolvedTarget.hash, 1))

\* C17: in hash mode, after a push, the fragment of the surface is "#", the
\* path and the search of the resolved target and, when it has a hash, the
\* substitute and the body of that hash; the location read back has the path,
\* search and hash of the resolved target, also for a target that holds the
\* substitute in its path or search.
C17_HashRoundTrip ==
    (mode = "hash" /\ last.op = "push") =>
        /\ LocationHash(history[index]) = ExpectedFragment
        /\ SameParts(location, ResolvedTarget)

\* ------------------------------------------------------------ C18
\* the last call left the href of the surface as it was
SurfaceHrefKept == LocationHref(history[index]) = LocationHref(last.history[last.index])

\* C18: in memory mode a push or replace leaves the href of the surface as it
\* was and stores, as the state of its entry, the envelope with the marker, the
\* caller's state and the path, search and hash of the resolved target.
C18_MemoryNavigatesInStateOnly ==
    (mode = "memory" /\ last.op \in {"push", "replace"}) =>
        /\ SurfaceHrefKept
        /\ history[index].state =
              [IS_MEMORY_HISTORY_STATE |-> TRUE, state |-> last.state,
               href |-> ResolvedTarget.path \o ResolvedTarget.search \o ResolvedTarget.hash]

\* on a surface showing /f a memory engine pushed "?x" from /b?x#y: the
\* surface still shows /f and the envelope holds /b?x
C18_Witness ==
    /\ mode = "memory"
    /\ last.op = "push"
    /\ last.to = <<QMARK, "x">>
    /\ last.location.hash = <<HASH, "y">>
    /\ LocationHref(history[index]) = <<ORIGIN, SLASH, "f">>
    /\ history[index].state.href = <<SLASH, "b", QMARK, "x">>

\* ------------------------------------------------------------ C19
\* the last call was the call of a disposer
Disposed == last.op \in {"dispose", "dispose again"}

\* the listener of the last call was registered when the call was made
WasRegistered == \E k \in DOMAIN last.listeners : last.listeners[k] = last.listener

\* C19 as stated: a further call of a disposer that has been called before has
\* no effect, also when its listener has been subscribed again since.
C19_DisposerIsOneShot ==
    last.op = "dispose again" => listeners = last.listeners

\* C19 as amended: every call of a disposer removes its listener from the
\* registered ones when it is there, and does nothing else; a further call
\* has no effect unless the listener has been subscribed again since, and then
\* it removes that registration.
C19_DisposerRemovesItsListener ==
    /\ Disposed =>
          /\ listeners = SelectSeq(last.listeners, LAMBDA x : x # last.listener)
          /\ status[last.listener] \notin Subscribed
          /\ notified = <<>>
          /\ ~last.threw
          /\ location = last.location
          /\ from = last.from
          /\ history = last.history
          /\ index = last.index
    /\ (last.op = "dispose again" /\ ~WasRegistered) => listeners = last.listeners

\* the disposer of L1 was called a further time after L1 had been subscribed
\* again: L1 is registered no more, L2 still is
C19_Witness ==
    /\ last.op = "dispose again"
    /\ last.listener = "L1"
    /\ last.listeners = <<"L2", "L1">>
    /\ listeners = <<"L2">>

\* ------------------------------------------------------------ C20
\* the last call was a push, a replace or a pop (a move of the cursor)
AChange == last.op \in {"push", "replace"} \/ CursorMoved

\* the last call was a push, a replace or a pop on an engine that still had its
\* popstate callback on the surface
AHandledChange == last.op \in {"push", "replace"} \/ (CursorMoved /\ ~last.destroyed)

\* construction leaves `from` undefined and calls nobody; once defined, `from`
\* stays defined
FromStartsUndefined ==
    /\ last.op = "create" => from = NoLocation /\ notified = <<>>
    /\ last.from # NoLocation => from # NoLocation

\* C20 as stated: `from` is undefined after construction, stays as it is with
\* every call that is no push, replace or pop, and is defined after each push,
\* replace and pop.
C20_FromUndefinedUntilFirstChange ==
    /\ FromStartsUndefined
    /\ AChange => from # NoLocation
    /\ (~AChange /\ last.op # "create") => from = last.from

\* C20 as amended: `from` is undefined after construction, stays as it is with
\* every call that is no push, replace or pop and with every pop on a
\* destroyed engine, and is defined after each push and replace and each pop
\* on an engine that has not been destroyed.
C20_FromUndefinedUntilFirstHandledChange ==
    /\ FromStartsUndefined
    /\ AHandledChange => from # NoLocation /\ from = last.location
    /\ (~AHandledChange /\ last.op # "create") => from = last.from

\* the first change of an engine was a pop: `from`, undefined before, is the
\* location the engine was constructed with
C20_Witness ==
    /\ CursorMoved
    /\ ~last.destroyed
    /\ last.from = NoLocation
    /\ from = last.location
    /\ from.id = 1

\* ------------------------------------------------------------ C21
\* the href of a Location is its path, search and hash, and holds neither a
\* scheme nor a host: it begins with the slash of the path
HrefIsPathSearchHash(loc) ==
    /\ loc.href = loc.path \o loc.search \o loc.hash
    /\ loc.href # <<>>
    /\ loc.href[1] = SLASH
    /\ \A k \in DOMAIN loc.href : loc.href[k] \notin {ORIGIN, COLON}

\* C21: in the three modes every Location the engine exposes, as `location`, as
\* `from` and in a notification, has href = path + search + hash without scheme
\* and host.
C21_HrefIsPathSearchHash ==
    /\ HrefIsPathSearchHash(location)
    /\ from # NoLocation => HrefIsPathSearchHash(from)
    /\ \A k \in DOMAIN notified :
          HrefIsPathSearchHash(notified[k].location) /\ HrefIsPathSearchHash(notified[k].from)

\* in browser mode, where the surface shows a full URL, a listener was handed
\* the href /b#y
C21_Witness ==
    /\ mode = "browser"
    /\ LocationHref(history[index])[1] = ORIGIN
    /\ Len(notified) = 1
    /\ notified[1].location.href = <<SLASH, "b", HASH, "y">>
    /\ location.href = <<SLASH, "b", HASH, "y">>

\* ------------------------------------------------------------ C22
\* the `initial` of the last call, with the parts it names
GivenInitial == CHOOSE i \in Initials : i.initial = last.to

FirstMatching(kids, path) ==
    LET hits == {k \in DOMAIN kids : /\ isValidElement(kids[k])
                                     /\ Exec(kids[k].props.path, path) # 0}
    IN  IF hits = {} THEN 0 ELSE CHOOSE k \in hits : \A j \in hits : k <= j

\* C23 as stated: once the Switch has rendered what was scheduled, it shows the
\* first child that matches the engine's current path, or nothing.
C23_SelectsFirstMatchOfCurrentPath ==
    rendered # NotMounted /\ ~scheduled =>
        rendered.selected = FirstMatching(children, location.path)

\* C23: the Switch shows the first child, in order, whose path matches the path
\* it rendered with, and nothing when none does; on an engine that was not
\* destroyed that path is the engine's current path once the scheduled render
\* has run.
C23_SelectsFirstMatch ==
    rendered # NotMounted =>
        /\ ~rendered.threw
        /\ rendered.selected = FirstMatching(children, rendered.path)
        /\ ~scheduled /\ ~destroyed => rendered.path = location.path

\* after push('/b#y') the Switch rendered again and shows the first of the two
\* children with /\/b/, the third of the four
C23_Witness ==
    /\ rendered # NotMounted
    /\ ~scheduled
    /\ ~destroyed
    /\ last.op = "push"
    /\ last.location.path = <<SLASH, "a">>
    /\ location.path = <<SLASH, "b">>
    /\ Len(children) = 4
    /\ rendered.selected = 3

\* ------------------------------------------------------------ C24
\* C24: on the simulated surface the cursor always is an index of the sequence,
\* the sequence is never empty, and right after a pushState the cursor is the
\* last index.
C24_CursorIsValid ==
    /\ Len(history) >= 1
    /\ index \in 1..Len(history)
    /\ last.op = "pushState" => index = Len(history)

\* a pushState made with the cursor on the first of three entries: two entries
\* are left and the cursor is on the second
C24_Witness ==
    /\ last.op = "pushState"
    /\ last.index = 1
    /\ Len(last.history) = 3
    /\ Len(history) = 2
    /\ index = 2

\* ------------------------------------------------------------ C25
\* the listeners with an active registration
Registered == {l \in DOMAIN since : since[l] # 0}

\* C25: a change calls the listeners with an active registration, each once,
\* the one registered earlier before the one registered later; subscribing a
\* subscribed listener again does not count as a registration, subscribing a
\* removed one does.
C25_NotifiedInRegistrationOrder ==
    Delivered =>
        /\ {notified[k].listener : k \in DOMAIN notified} = Registered
        /\ \A j, k \in DOMAIN notified :
               j < k => since[notified[j].listener] < since[notified[k].listener]

\* L1 was subscribed first, removed and subscribed again after L2 (and then once
\* more): the change calls L2 and then L1
C25_Witness ==
    /\ Delivered
    /\ Len(notified) = 2
    /\ notified[1].listener = "L2"
    /\ notified[2].listener = "L1"
    /\ since["L2"] = 2
    /\ since["L1"] = 3
    /\ status["L1"] = "subscribed again"

\* ------------------------------------------------------------ C26
\* C26: when push or replace returns, every subscribed listener has been
\* called, and during its call it read on the engine the location made from the
\* entry just written, the state of the call and the length of the surface after
\* the write.
C26_ListenersSeeTheNewEntry ==
    last.op \in {"push", "replace"} =>
        /\ ~last.threw
        /\ [k \in DOMAIN notified |-> notified[k].listener] = last.listeners
        /\ \A k \in DOMAIN notified :
              /\ notified[k].seen = location
              /\ notified[k].seen.id # last.location.id
              /\ SameParts(notified[k].seen, written[index])
              /\ notified[k].seen.state = last.state
              /\ notified[k].length = Len(history)
              /\ notified[k].from = last.location

\* a push from the first of two entries of a memory surface: the listener reads
\* the new location /a with state s1, and a length of 2 again
C26_Witness ==
    /\ last.op = "push"
    /\ last.index = 1
    /\ Len(last.history) = 2
    /\ Len(notified) = 1
    /\ notified[1].seen.path = <<SLASH, "a">>
    /\ notified[1].seen.state = "s1"
    /\ notified[1].length = 2
    /\ last.location.path # <<SLASH, "a">>

\* ------------------------------------------------------------ C27
\* C27: while the engine is not destroyed and its driver can read the current
\* entry (every operation that completed without error leaves such an entry),
\* the Location the engine holds is the one the driver derives from the current
\* entry, path, search, hash and state, and length is the number of entries.
C27_LocationFollowsTheSurface ==
    (/\ ~destroyed
     /\ ~getLocationThrows(mode, history[index])
     /\ ~createLocationThrows(DriverHref(mode, history[index]))) =>
        /\ location = getLocation(mode, history[index], location.id)
        /\ getState = history[index].state.state
        /\ getLength = Len(history)

\* in memory mode a push, a replace and a back that moved the cursor to the
\* first entry, which the engine wrote when it was constructed
C27_Witness ==
    /\ mode = "memory"
    /\ CursorMoved
    /\ ~last.threw
    /\ last.delta = -1
    /\ index = 1
    /\ Len(history) = 2
    /\ location.path = <<SLASH>>
    /\ last.location.search = <<QMARK, "x">>

\* ------------------------------------------------------------ C28
\* C28: a pop in memory mode that raises `navigation out of memory history`
\* leaves location and from exactly as they were before the call.
C28_FailedPopChangesNothing ==
    (last.op = "go" /\ last.threw) =>
        /\ location = last.location
        /\ from = last.from

\* ------------------------------------------------------------ C29
\* the calls the last operation made to listener l, in order
CallsTo(l) == SelectSeq(notified, LAMBDA c : c.listener = l)

\* the last call was a push or replace during which the Navigator called push or
\* replace in turn
Reentered ==
    /\ last.op \in {"push", "replace"}
    /\ \E k \in DOMAIN last.listeners : last.listeners[k] = Navigator

\* C29: when a listener calls push or replace from inside its notification,
\* every subscribed listener is called exactly twice: first with the action of
\* the outer call, its location and the location before it, then with the action
\* and the location of the inner call.
C29_BothChangesNotifiedInOrder ==
    Reentered =>
        \A k \in DOMAIN last.listeners :
            LET calls == CallsTo(last.listeners[k])
            IN  /\ Len(calls) = 2
                /\ calls[1].action = ActionOf(last.op)
                /\ calls[1].location = from
                /\ calls[1].from = last.location
                /\ calls[2].action = ActionOf(last.inner.op)
                /\ calls[2].location = location
                /\ calls[2].from = from

\* ------------------------------------------------------------ C30
\* the target of the last call, with the parts it names
ColonTarget == CHOOSE t \in ColonTargets : t.to = last.to

\* C30: in memory and hash mode a push of a scheme-less target that holds a
\* colon in its search or hash completes without error and leaves the engine's
\* location with the path, search and hash of the target.
C30_ColonTargetIsPathRelative ==
    (mode \in {"memory", "hash"} /\ last.op = "push" /\ Includes(last.to, COLON)) =>
        /\ ~last.threw
        /\ location.path = ColonTarget.path
        /\ location.search = ColonTarget.search
        /\ location.hash = ColonTarget.hash

\* ------------------------------------------------------------ C31
\* the calls are one POP for each of the listeners ls, in their order
OnePopEach(calls, ls) ==
    /\ Len(calls) = Len(ls)
    /\ \A k \in DOMAIN calls : calls[k].listener = ls[k] /\ calls[k].action = "POP"

\* what C31 says of a go that moved the cursor of the shared surface: the
\* listeners of each engine that was not destroyed get one POP each, and two
\* such engines hold the same location afterwards
PopReachesBoth ==
    /\ ~destroyed => OnePopEach(notified, listeners) /\ Len(listeners) = Len(last.listeners)
    /\ ~other.destroyed => OnePopEach(other.notified, other.listeners)
    /\ (~destroyed /\ ~other.destroyed) =>
           /\ SameParts(location, other.location)
           /\ location.state = other.location.state

\* C31 as stated: every go that moves the cursor of a surface two engines share
\* notifies the listeners of each active engine once with POP and leaves both
\* engines with the same location; an engine keeps getting pops after the
\* other was destroyed.
C31_PopReachesBothEngines == CursorMoved => PopReachesBoth

\* C31: the same for every go that moves the cursor to an entry the driver can
\* read; a move onto an entry it cannot read (memory mode, a foreign entry)
\* notifies nobody.
C31_ReadablePopReachesBothEngines ==
    CursorMoved =>
        IF Unreadable(history[index])
        THEN notified = <<>> /\ other.notified = <<>>
        ELSE PopReachesBoth

\* in memory mode the second engine pushed /a and the surface went back: each
\* engine notifies its listener once, the first engine of a move from /, which
\* it never left, the second of a move from /a, and both are at / now
C31_Witness ==
    /\ mode = "memory"
    /\ CursorMoved
    /\ ~destroyed /\ ~other.destroyed
    /\ Len(notified) = 1
    /\ Len(other.notified) = 1
    /\ notified[1].from.path = <<SLASH>>
    /\ other.notified[1].from.path = <<SLASH, "a">>
    /\ location.path = <<SLASH>>
    /\ other.location.path = <<SLASH>>

\* ------------------------------------------------------------ C32
\* the last call was unsubscribe of a listener that was not subscribed
UnsubscribedAbsent ==
    /\ last.op = "unsubscribe"
    /\ \A k \in DOMAIN last.listeners : last.listeners[k] # last.listener

\* C32: unsubscribe of a listener that is not subscribed (never subscribed, or
\* unsubscribed before) leaves the listeners, location, from and the surface
\* (entries, cursor, popstate callbacks) as they were and calls no listener.
C32_UnsubscribeOfAbsentChangesNothing ==
    UnsubscribedAbsent =>
        /\ listeners = last.listeners
        /\ location = last.location
        /\ from = last.from
        /\ history = last.history
        /\ index = last.index
        /\ winListeners = last.winListeners
        /\ destroyed = last.destroyed
        /\ notified = <<>>

\* L1 was unsubscribed and is unsubscribed a second time while L2 is subscribed,
\* after a change of location
C32_Witness ==
    /\ UnsubscribedAbsent
    /\ last.listener = "L1"
    /\ status["L1"] = "unsubscribed"
    /\ last.listeners = <<"L2">>
    /\ from # NoLocation

\* ------------------------------------------------------------ C33
\* child k is an element whose path is missing or is no RegExp
Pathless(k) == isValidElement(children[k]) /\ ~IsRegExp(children[k].props)

\* child k is an element whose RegExp path matches the path rendered with
Matching(k) ==
    /\ isValidElement(children[k])
    /\ IsRegExp(children[k].props)
    /\ Exec(children[k].props.path, rendered.path) # 0

====
